---- MODULE Spec2Model ----
(***************************************************************************)
(* A model of pycps/parsers.py: the data-dictionary parser (DDParser) and  *)
(* the month -> data-dictionary lookup (_month_to_dd).                     *)
(*                                                                         *)
(* Text is modelled as a sequence of one-character strings; a file is a    *)
(* sequence of lines, each line ending in "\n" as file iteration yields    *)
(* them.  The three regular expressions of make_regex are transcribed atom *)
(* by atom and interpreted by a backtracking matcher that keeps Python's   *)
(* priority order (greedy / lazy quantifiers, left alternative first).     *)
(***************************************************************************)
EXTENDS Integers, Sequences, FiniteSets, TLC

---------------------------------------------------------------------------
(* Bounds of the model *)

\* longest file, in lines
MaxLines == 3
\* ids of the formatter's inputs are drawn from strings of at most this length
MaxIdLen == 3
\* last calendar year of the months given to _month_to_dd
MaxYear == 2014

---------------------------------------------------------------------------
(* Characters and character classes of Python's re (str patterns), cut    *)
(* down to the ASCII characters the lines of the model are written with   *)

Digits == {"0", "1", "2", "3", "4", "5", "6", "7", "8", "9"}

Upper == {"A", "B", "C", "D", "E", "F", "G", "H", "I", "J", "K", "L", "M",
          "N", "O", "P", "Q", "R", "S", "T", "U", "V", "W", "X", "Y", "Z"}

Lower == {"a", "b", "c", "d", "e", "f", "g", "h", "i", "j", "k", "l", "m",
          "n", "o", "p", "q", "r", "s", "t", "u", "v", "w", "x", "y", "z"}

\* \w
Word == Upper \cup Lower \cup Digits \cup {"_"}

\* \s  (and [\s\t], which is the same class); the vertical tab is left out
Space == {" ", "\t", "\n", "\r", "\f"}

Punct == {"$", "%", "-", "*", ".", "(", ")", ":"}

\* .  (every character but the newline)
Dot == (Word \cup Space \cup Punct) \ {"\n"}

\* an open upper repetition bound:  *  and  +
Unbounded == -1

---------------------------------------------------------------------------
(* Regular expressions: a pattern is a sequence of alternatives, each a     *)
(* sequence of atoms (a character class with a quantifier, a literal       *)
(* string, or the $ assertion) and the spans of atoms its capture groups   *)
(* enclose.                                                                *)

Rep(cls, lo, hi, greedy) ==
    [kind |-> "rep", cls |-> cls, min |-> lo, max |-> hi, greedy |-> greedy,
     text |-> <<>>]

Lit(cs) ==
    [kind |-> "lit", cls |-> {}, min |-> 1, max |-> 1, greedy |-> TRUE,
     text |-> cs]

Eol ==
    [kind |-> "eol", cls |-> {}, min |-> 0, max |-> 0, greedy |-> TRUE,
     text |-> <<>>]

\* the number of consecutive characters of s from position i that lie in
\* cls, at most cap of them
RECURSIVE RunLen(_, _, _, _)
RunLen(s, i, cls, cap) ==
    IF cap = 0 \/ i > Len(s) THEN 0
    ELSE IF s[i] \notin cls THEN 0
    ELSE 1 + RunLen(s, i + 1, cls, cap - 1)

NoMatch == [ok |-> FALSE, ends |-> <<>>]

\* Match atoms k.. of a sequence of atoms against s from position i.  The
\* result is the first success in the matcher's priority order: ends[j] is
\* the position just after what atom k+j-1 consumed.  TryCounts lets atom k
\* consume c characters, then c + step, ... up to last.
RECURSIVE TryAtoms(_, _, _, _)
RECURSIVE TryCounts(_, _, _, _, _, _, _)
TryCounts(atoms, k, s, i, c, last, step) ==
    LET r == TryAtoms(atoms, k + 1, s, i + c)
    IN  IF r.ok THEN [ok |-> TRUE, ends |-> <<i + c>> \o r.ends]
        ELSE IF c = last THEN NoMatch
        ELSE TryCounts(atoms, k, s, i, c + step, last, step)

TryAtoms(atoms, k, s, i) ==
    IF k > Len(atoms) THEN [ok |-> TRUE, ends |-> <<>>]
    ELSE LET a == atoms[k]
         IN  CASE a.kind = "eol" ->
                  \* $ : at the end, or just before a newline that ends s
                  IF i = Len(s) + 1 \/ (i = Len(s) /\ s[i] = "\n")
                  THEN TryCounts(atoms, k, s, i, 0, 0, 1)
                  ELSE NoMatch
               [] a.kind = "lit" ->
                  IF /\ i + Len(a.text) - 1 <= Len(s)
                     /\ SubSeq(s, i, i + Len(a.text) - 1) = a.text
                  THEN TryCounts(atoms, k, s, i, Len(a.text), Len(a.text), 1)
                  ELSE NoMatch
               [] OTHER ->
                  LET cap == IF a.max = Unbounded THEN Len(s) ELSE a.max
                      n   == RunLen(s, i, a.cls, cap)
                  IN  IF n < a.min THEN NoMatch
                      ELSE IF a.greedy
                      THEN TryCounts(atoms, k, s, i, n, a.min, -1)
                      ELSE TryCounts(atoms, k, s, i, a.min, n, 1)

\* the text a group captured: from the start of its first atom to the end
\* of its last
GroupText(s, ends, span) ==
    LET from == IF span[1] = 1 THEN 1 ELSE ends[span[1] - 1]
    IN  SubSeq(s, from, ends[span[2]] - 1)

\* regex.match(line) finding nothing
None == [hit |-> FALSE, groups |-> <<>>]

\* regex.match(line): the groups of the first alternative that matches at
\* the start of the line, or None
RECURSIVE MatchAlts(_, _, _)
MatchAlts(regex, a, line) ==
    IF a > Len(regex) THEN None
    ELSE LET r == TryAtoms(regex[a].atoms, 1, line, 1)
         IN  IF r.ok
             THEN [hit |-> TRUE,
                   groups |-> [g \in 1..Len(regex[a].groups) |->
                                  GroupText(line, r.ends, regex[a].groups[g])]]
             ELSE MatchAlts(regex, a + 1, line)

match(regex, line) == MatchAlts(regex, 1, line)

---------------------------------------------------------------------------
(* DDParser.make_regex *)

\* (\w+)[\s\t]*(\d{1,2})[\s\t]*(.*?)[\s\t]*\(*(\d+)\s*-\s*(\d+)\)*\s*$
\* after an optional form feed
default ==
    << [atoms |-> << Rep({"\f"}, 0, 1, TRUE),
                     Rep(Word, 1, Unbounded, TRUE),
                     Rep(Space, 0, Unbounded, TRUE),
                     Rep(Digits, 1, 2, TRUE),
                     Rep(Space, 0, Unbounded, TRUE),
                     Rep(Dot, 0, Unbounded, FALSE),
                     Rep(Space, 0, Unbounded, TRUE),
                     Rep({"("}, 0, Unbounded, TRUE),
                     Rep(Digits, 1, Unbounded, TRUE),
                     Rep(Space, 0, Unbounded, TRUE),
                     Lit(<<"-">>),
                     Rep(Space, 0, Unbounded, TRUE),
                     Rep(Digits, 1, Unbounded, TRUE),
                     Rep({")"}, 0, Unbounded, TRUE),
                     Rep(Space, 0, Unbounded, TRUE),
                     Eol >>,
        groups |-> << <<2, 2>>, <<4, 4>>, <<6, 6>>, <<9, 9>>, <<13, 13>> >>] >>

\* \s*CHARACTER\*(\d{3})\s*\.{0,1}\s*\((\d*):(\d*)\).*
CharacterTail ==
    << Rep(Space, 0, Unbounded, TRUE),
       Lit(<<"C", "H", "A", "R", "A", "C", "T", "E", "R", "*">>),
       Rep(Digits, 3, 3, TRUE),
       Rep(Space, 0, Unbounded, TRUE),
       Rep({"."}, 0, 1, TRUE),
       Rep(Space, 0, Unbounded, TRUE),
       Lit(<<"(">>),
       Rep(Digits, 0, Unbounded, TRUE),
       Lit(<<":">>),
       Rep(Digits, 0, Unbounded, TRUE),
       Lit(<<")">>),
       Rep(Dot, 0, Unbounded, TRUE) >>

\* the groups of CharacterTail when n atoms precede it: (\d{3}) is its 3rd
\* atom, the two (\d*) its 8th and 10th
CharacterGroups(n) ==
    << <<n + 3, n + 3>>, <<n + 8, n + 8>>, <<n + 10, n + 10>> >>

\* (\w{1,2}[\$\-%]\w*|PADDING) followed by CharacterTail: the alternation
\* opens the pattern, so it is the ordered choice between the two
\* alternatives each followed by the tail
style0 ==
    << [atoms |-> << Rep(Word, 1, 2, TRUE),
                     Rep({"$", "-", "%"}, 1, 1, TRUE),
                     Rep(Word, 0, Unbounded, TRUE) >> \o CharacterTail,
        groups |-> << <<1, 3>> >> \o CharacterGroups(3)],
       [atoms |-> << Lit(<<"P", "A", "D", "D", "I", "N", "G">>) >>
                  \o CharacterTail,
        groups |-> << <<1, 1>> >> \o CharacterGroups(1)] >>

\* D (\w+) \s* (\d{1,2}) \s* (\d*)
style1 ==
    << [atoms |-> << Lit(<<"D", " ">>),
                     Rep(Word, 1, Unbounded, TRUE),
                     Lit(<<" ">>), Rep(Space, 0, Unbounded, TRUE), Lit(<<" ">>),
                     Rep(Digits, 1, 2, TRUE),
                     Lit(<<" ">>), Rep(Space, 0, Unbounded, TRUE), Lit(<<" ">>),
                     Rep(Digits, 0, Unbounded, TRUE) >>,
        groups |-> << <<2, 2>>, <<6, 6>>, <<10, 10>> >>] >>

make_regex(style) ==
    CASE style = 0 -> style0
      [] style = 1 -> style1
      [] style = 2 -> default
      [] OTHER -> default

---------------------------------------------------------------------------
(* Values and exceptions *)

\* what a call delivers: the value it returns, or the exception it raises
\* (context: the exception that was being handled when it was raised)
Return(v) == [exc |-> "none", context |-> "none", val |-> v]

Raise(type, context) == [exc |-> type, context |-> context, val |-> <<>>]

DigitSeq == <<"0", "1", "2", "3", "4", "5", "6", "7", "8", "9">>

DigitVal(c) == (CHOOSE i \in 1..10 : DigitSeq[i] = c) - 1

\* the value of a string of decimal digits
RECURSIVE DecimalVal(_)
DecimalVal(cs) ==
    IF cs = <<>> THEN 0
    ELSE 10 * DecimalVal(SubSeq(cs, 1, Len(cs) - 1)) + DigitVal(cs[Len(cs)])

\* int(x) for a str x: ValueError unless x is a numeral ('' is none)
int(cs) ==
    IF cs # <<>> /\ \A i \in 1..Len(cs) : cs[i] \in Digits
    THEN Return(DecimalVal(cs))
    ELSE Raise("ValueError", "none")

---------------------------------------------------------------------------
(* DDParser.handle_replacers, DDParser.formatter *)

\* str.replace(bad_char, good_char): every occurrence
replace(cs, bad_char, good_char) ==
    [i \in 1..Len(cs) |-> IF cs[i] = bad_char THEN good_char ELSE cs[i]]

\* handle_replacers with the '%' entry of replacers left out
handle_replacers_no_percent(id_) ==
    replace(replace(id_, "$", "d"), "-", "h")

handle_replacers(id_) ==
    replace(replace(replace(id_, "$", "d"), "%", "p"), "-", "h")

\* the tail of formatter: the three int() conversions in their order, the
\* first to fail raising
IntFields(id_, length, start, end) ==
    IF int(length).exc # "none" THEN int(length)
    ELSE IF int(start).exc # "none" THEN int(start)
    ELSE IF int(end).exc # "none" THEN int(end)
    ELSE Return(<<id_, int(length).val, int(start).val, int(end).val>>)

\* formatter(match), for a parser of the given style; groups is
\* match.groups()
formatter(style, groups) ==
    IF style = 1
    THEN IF Len(groups) # 3 THEN Raise("ValueError", "none")
         ELSE IF int(groups[2]).exc # "none" THEN int(groups[2])
         ELSE IF int(groups[3]).exc # "none" THEN int(groups[3])
         ELSE LET length == int(groups[2]).val
                  start  == int(groups[3]).val
              IN  Return(<<groups[1], length, start, start + length - 1>>)
    ELSE IF Len(groups) = 4
         THEN IntFields(handle_replacers(groups[1]),
                        groups[2], groups[3], groups[4])
         ELSE IF Len(groups) = 5
         THEN \* the unpacking into four names raised ValueError
              IntFields(groups[1], groups[2], groups[4], groups[5])
         ELSE Raise("ValueError", "ValueError")

---------------------------------------------------------------------------
(* DDParser._is_consistent *)

\* check_width that lets a record pass whose length exceeds its columns
check_width_lax(current) == current[2] >= current[4] - current[3] + 1

\* check_width passes (it raises WidthError otherwise)
check_width(current) == current[2] = current[4] - current[3] + 1

\* check_continuity that lets a gap pass
check_continuity_lax(current, old) == current[3] >= old[4] + 1

\* check_continuity passes (it raises ContinuityError otherwise)
check_continuity(current, old) == current[3] = old[4] + 1

\* a local that nothing has been assigned to yet (records are 4-tuples)
Unbound == <<>>

\* the loop with the continuity of a pair checked before the width of its
\* first record
RECURSIVE Loop_continuity_first(_, _, _)
Loop_continuity_first(formatted, c, old) ==
    IF c < Len(formatted) /\ ~check_continuity(formatted[c + 1], formatted[c])
    THEN "ContinuityError"
    ELSE IF ~check_width(formatted[c]) THEN "WidthError"
    ELSE IF c = Len(formatted)
    THEN IF old = Unbound THEN "UnboundLocalError" ELSE "StopIteration"
    ELSE Loop_continuity_first(formatted, c + 1, formatted[c])

\* One turn of the while loop with current = formatted[c]; old is the
\* local of that name, Unbound until the first assignment to it.  The
\* right-hand side  current, next(g), i + 1  is evaluated before anything
\* is assigned, so a StopIteration from next(g) leaves old as it was.
RECURSIVE Loop(_, _, _)
Loop(formatted, c, old) ==
    IF ~check_width(formatted[c]) THEN "WidthError"
    ELSE IF c = Len(formatted)
    THEN \* next(g) raises StopIteration: the except clause
         IF old = Unbound THEN "UnboundLocalError"
         ELSE IF ~check_width(old) THEN "WidthError"
         ELSE "StopIteration"
    ELSE IF ~check_continuity(formatted[c + 1], formatted[c])
    THEN "ContinuityError"
    ELSE Loop(formatted, c + 1, formatted[c])

\* the exception _is_consistent ends with (it never returns)
is_consistent(formatted) ==
    IF formatted = <<>> THEN "StopIteration"
    ELSE Loop(formatted, 1, Unbound)

---------------------------------------------------------------------------
(* DDParser.__init__ and DDParser.run *)

styles ==
    [jan1989 |-> 0, jan1992 |-> 0, jan1994 |-> 2,
     apr1994 |-> 2, jun1995 |-> 2, sep1995 |-> 2,
     jan1998 |-> 1, jan2003 |-> 2, may2004 |-> 2,
     aug2005 |-> 2, jan2007 |-> 2, jan2009 |-> 2,
     jan2010 |-> 2, may2012 |-> 2, jan2013 |-> 2]

\* max(styles.values())
MaxStyle == CHOOSE v \in {styles[k] : k \in DOMAIN styles} :
                \A k \in DOMAIN styles : styles[k] <= v

\* styles.get(self.store_name, max(styles.values()))
style_of(name) == IF name \in DOMAIN styles THEN styles[name] ELSE MaxStyle

\* filter that drops nothing
filter_none_keeps_all(ms) == ms

\* filter(None, lines): the matches, in order
filter_none(ms) == SelectSeq(ms, LAMBDA m : m.hit)

\* lines = filter(None, (self.regex.match(line) for line in f))
matches(regex, f) == filter_none([i \in 1..Len(f) |-> match(regex, f[i])])

\* the first exception a list of outcomes holds, as the list comprehension
\* raises it
FirstRaised(outs) ==
    outs[CHOOSE i \in 1..Len(outs) :
             /\ outs[i].exc # "none"
             /\ \A j \in 1..(i - 1) : outs[j].exc = "none"]

\* self.df before any assignment to it
Unset == [set |-> FALSE, table |-> <<>>]

\* run with self.df assigned before the records are checked
run_assigns_early(style, df, f) ==
    LET lines == matches(make_regex(style), f)
        outs  == [i \in 1..Len(lines) |-> formatter(style, lines[i].groups)]
    IN  IF \E i \in 1..Len(outs) : outs[i].exc # "none"
        THEN [ret |-> FirstRaised(outs), df |-> df]
        ELSE LET formatted == [i \in 1..Len(outs) |-> outs[i].val]
                 e == is_consistent(formatted)
                 assigned == [set |-> TRUE, table |-> formatted]
             IN  CASE e = "StopIteration" ->
                        [ret |-> Return(formatted), df |-> assigned]
                   [] e \in {"WidthError", "ContinuityError"} ->
                        [ret |-> Raise("ValueError", e), df |-> assigned]
                   [] OTHER ->
                        [ret |-> Raise(e, "StopIteration"), df |-> assigned]

\* run(self) on the lines f of self.infile: what the call delivers (ret)
\* and self.df after it
run(style, df, f) ==
    LET lines == matches(make_regex(style), f)
        outs  == [i \in 1..Len(lines) |-> formatter(style, lines[i].groups)]
    IN  IF \E i \in 1..Len(outs) : outs[i].exc # "none"
        THEN [ret |-> FirstRaised(outs), df |-> df]
        ELSE LET formatted == [i \in 1..Len(outs) |-> outs[i].val]
                 e == is_consistent(formatted)
             IN  CASE e = "StopIteration" ->
                        [ret |-> Return(formatted),
                         df  |-> [set |-> TRUE, table |-> formatted]]
                   [] e = "WidthError" ->
                        [ret |-> Raise("ValueError", "WidthError"), df |-> df]
                   [] e = "ContinuityError" ->
                        [ret |-> Raise("ValueError", "ContinuityError"),
                         df  |-> df]
                   [] OTHER ->
                        [ret |-> Raise(e, "StopIteration"), df |-> df]

---------------------------------------------------------------------------
(* _month_to_dd *)

dd_to_month ==
    << [name |-> "jan1989", v |-> << <<1989, 1>>,  <<1991, 12>> >>],
       [name |-> "jan1992", v |-> << <<1992, 1>>,  <<1993, 12>> >>],
       [name |-> "jan1994", v |-> << <<1994, 1>>,  <<1994, 3>> >>],
       [name |-> "apr1994", v |-> << <<1994, 4>>,  <<1995, 5>> >>],
       [name |-> "jun1995", v |-> << <<1995, 6>>,  <<1995, 8>> >>],
       [name |-> "sep1995", v |-> << <<1995, 9>>,  <<1997, 12>> >>],
       [name |-> "jan1998", v |-> << <<1998, 1>>,  <<2002, 12>> >>],
       [name |-> "jan2003", v |-> << <<2003, 1>>,  <<2004, 4>> >>],
       [name |-> "may2004", v |-> << <<2004, 5>>,  <<2005, 7>> >>],
       [name |-> "aug2005", v |-> << <<2005, 8>>,  <<2006, 12>> >>],
       [name |-> "jan2007", v |-> << <<2007, 1>>,  <<2008, 12>> >>],
       [name |-> "jan2009", v |-> << <<2009, 1>>,  <<2009, 12>> >>],
       [name |-> "jan2010", v |-> << <<2010, 1>>,  <<2012, 4>> >>],
       [name |-> "may2012", v |-> << <<2012, 5>>,  <<2012, 12>> >>],
       [name |-> "jan2013", v |-> << <<2013, 1>>,  <<2013, 3>> >>] >>

\* arrow.get(s) for s = 'YYYY-MM' or 'YYYY-MM-DD', given as the numbers the
\* string spells: midnight UTC of that day, the first of the month when the
\* string names no day
arrow_get(s) ==
    [year |-> s[1], month |-> s[2], day |-> IF Len(s) >= 3 THEN s[3] ELSE 1]

\* a < b on Arrow values
ArrowLt(a, b) ==
    \/ a.year < b.year
    \/ a.year = b.year /\ a.month < b.month
    \/ a.year = b.year /\ a.month = b.month /\ a.day < b.day

\* a <= b on Arrow values
ArrowLeq(a, b) ==
    \/ a.year < b.year
    \/ a.year = b.year /\ a.month < b.month
    \/ a.year = b.year /\ a.month = b.month /\ a.day <= b.day

\* a + relativedelta(months=1), for a day every month has
NextMonth(a) ==
    IF a.month = 12 THEN [a EXCEPT !.year = a.year + 1, !.month = 1]
    ELSE [a EXCEPT !.month = a.month + 1]

\* arrow.Arrow.range(start=start, end=end, frame='month')
RECURSIVE ArrowRange(_, _)
ArrowRange(start, end) ==
    IF ArrowLeq(start, end)
    THEN <<start>> \o ArrowRange(NextMonth(start), end)
    ELSE <<>>

mk_range(v) == ArrowRange(arrow_get(v[1]), arrow_get(v[2]))

\* rngs[key], with the entries of dd_to_month numbered as they are written
rngs(key) == mk_range(dd_to_month[key].v)

\* membership that compares the year alone
isin_year(value, key) ==
    LET r == rngs(key) IN \E i \in 1..Len(r) : r[i].year = value.year

\* value in rngs[key]
isin(value, key) ==
    LET r == rngs(key) IN \E i \in 1..Len(r) : r[i] = value

\* _month_to_dd(month): the outcomes it can have.  list(dd)[0] is the first
\* key that filter lets through in the dict's iteration order, which the
\* language fixes in no version the code names: any key that passes can
\* come first.  An empty list makes [0] raise IndexError.
month_to_dd(month) ==
    LET dd == {k \in 1..Len(dd_to_month) : isin(arrow_get(month), k)}
    IN  IF dd = {} THEN {Raise("IndexError", "none")}
        ELSE {Return(dd_to_month[k].name) : k \in dd}

---------------------------------------------------------------------------
(* The inputs of the model *)

\* the names the parsers are built for: one of style 0, one of style 1 and
\* one that the table of styles does not hold
StoreNames == {"jan1989", "jan1998", "cpsb9001"}

\* lines of a CHARACTER* dictionary (three fields in a row, one whose width
\* is wrong, one without a start column) and a heading
Lines0 ==
    { <<"A", "G", "-", "1", " ", "C", "H", "A", "R", "A", "C", "T", "E", "R", "*", "0", "0", "3", " ", ".", "(", "0", "0", "1", ":", "0", "0", "3", ")", "\n">>,
      <<"B", "$", " ", "C", "H", "A", "R", "A", "C", "T", "E", "R", "*", "0", "0", "2", " ", "(", "4", ":", "5", ")", "\n">>,
      <<"P", "A", "D", "D", "I", "N", "G", " ", "C", "H", "A", "R", "A", "C", "T", "E", "R", "*", "0", "0", "1", " ", "(", "6", ":", "6", ")", "\n">>,
      <<"C", "%", " ", "C", "H", "A", "R", "A", "C", "T", "E", "R", "*", "0", "0", "3", " ", "(", "4", ":", "5", ")", "\n">>,
      <<"C", "%", " ", "C", "H", "A", "R", "A", "C", "T", "E", "R", "*", "0", "0", "1", " ", "(", ":", "6", ")", "\n">>,
      <<"H", "D", "R", "\n">> }

\* lines of a compact dictionary (two fields in a row, one after a gap, one
\* without a start column) and a line with single blanks
Lines1 ==
    { <<"D", " ", "A", " ", " ", "2", " ", " ", "1", "\n">>,
      <<"D", " ", "B", " ", " ", "1", " ", " ", "3", "\n">>,
      <<"D", " ", "B", " ", " ", "1", " ", " ", "4", "\n">>,
      <<"D", " ", "C", " ", " ", "1", " ", " ", "\n">>,
      <<"D", " ", "C", " ", "1", " ", "3", "\n">> }

\* lines of the default style (two fields in a row, one whose width is
\* wrong, one after a gap, one wrong in both) and a blank line
Lines2 ==
    { <<"A", " ", "2", " ", "I", "D", " ", "(", "1", " ", "-", " ", "2", ")", "\n">>,
      <<"\f", "B", " ", "1", " ", "(", "3", "-", "3", ")", "\n">>,
      <<"C", " ", "3", " ", "(", "3", "-", "4", ")", "\n">>,
      <<"B", " ", "1", " ", "(", "4", " ", "-", " ", "4", ")", "\n">>,
      <<"C", " ", "1", "0", " ", "(", "1", "-", "5", ")", "\n">>,
      <<"\n">> }

\* the lines a file read by a parser of the given style is written from
Lines(style) ==
    CASE style = 0 -> Lines0
      [] style = 1 -> Lines1
      [] OTHER -> Lines2

\* the characters the ids given to formatter are spelled with
IdChars == {"A", "1", "$", "%", "-"}

\* the strings over IdChars of length 1..n
RECURSIVE Ids(_)
Ids(n) ==
    IF n = 0 THEN {}
    ELSE LET shorter == Ids(n - 1)
         IN  {<<c>> : c \in IdChars} \cup shorter
             \cup {Append(w, c) : w \in shorter, c \in IdChars}

\* the lines given to regex.match and formatter: every id followed by the
\* rest of a line of the style, and the PADDING line of style 0
FormatterLines(st) ==
    CASE st = 0 ->
           {id \o <<" ", "C", "H", "A", "R", "A", "C", "T", "E", "R", "*",
                    "0", "0", "3", " ", ".", "(", "0", "0", "1", ":",
                    "0", "0", "3", ")", "\n">> : id \in Ids(MaxIdLen)}
           \cup Lines0
      [] st = 1 ->
           {<<"D", " ">> \o id \o <<" ", " ", "1", "2", " ", " ", "1", "\n">> :
                id \in Ids(MaxIdLen)}
           \cup Lines1
      [] OTHER ->
           {id \o <<" ", "1", "5", " ", "(", "1", " ", "-", " ", "1", "5",
                    ")", "\n">> : id \in Ids(MaxIdLen)}
           \cup {<<"\f">> \o id \o <<" ", "3", " ", "A", "-", "$", " ", "I",
                    "D", " ", "(", "1", "-", "3", ")", "\n">> :
                     id \in Ids(MaxIdLen)}
           \cup Lines2

\* the days of the month the arguments of _month_to_dd name
Days == {1, 15}

\* the arguments of _month_to_dd: 'YYYY-MM' as <<year, month>> and
\* 'YYYY-MM-DD' as <<year, month, day>>
Months ==
    {<<y, m>> : y \in 1988..MaxYear, m \in 1..12}
    \cup {<<y, m, d>> : y \in 1988..MaxYear, m \in 1..12, d \in Days}

---------------------------------------------------------------------------
(* The parser and its file *)

VARIABLES
    store_name,   \* self.store_name
    style,        \* self.style
    infile,       \* the lines of the file at self.infile
    df,           \* self.df
    ret,          \* what run delivered for the present infile (NoCall: it
                  \* has not been called since the file was last written)
    line,         \* a line handed to regex.match and formatter
    rec,          \* what formatter delivered for it
    month,        \* an argument of _month_to_dd
    dd            \* what _month_to_dd delivered for it

vars == <<store_name, style, infile, df, ret, line, rec, month, dd>>

NoCall == [exc |-> "nocall", context |-> "none", val |-> <<>>]

\* DDParser(infile, settings)
ParserInit ==
    /\ store_name \in StoreNames
    /\ style = style_of(store_name)
    /\ df = Unset
    /\ ret = NoCall

Init ==
    /\ ParserInit
    /\ infile = <<>>
    /\ line = <<>> /\ rec = NoCall
    /\ month = <<>> /\ dd = NoCall

\* a line is added to the file
WriteLine ==
    /\ Len(infile) < MaxLines
    /\ \E l \in Lines(style) : infile' = Append(infile, l)
    /\ ret' = NoCall
    /\ UNCHANGED <<store_name, style, df, line, rec, month, dd>>

\* the file is emptied
Truncate ==
    /\ infile # <<>>
    /\ infile' = <<>>
    /\ ret' = NoCall
    /\ UNCHANGED <<store_name, style, df, line, rec, month, dd>>

\* parser.run().  A second call on a file that has not been written since
\* the first reads the same lines, delivers the same and leaves self.df as
\* it is: it is a stuttering step, and only the first call is a step here.
Run ==
    /\ ret = NoCall
    /\ LET r == run(style, df, infile)
       IN  ret' = r.ret /\ df' = r.df
    /\ UNCHANGED <<store_name, style, infile, line, rec, month, dd>>

Next == WriteLine \/ Truncate \/ Run

Spec == Init /\ [][Next]_vars

---------------------------------------------------------------------------
(* The formatter on one line *)

FormatterInit ==
    /\ ParserInit
    /\ infile = <<>>
    /\ line \in FormatterLines(style) /\ rec = NoCall
    /\ month = <<>> /\ dd = NoCall

\* self.formatter(x) for the match x of the line, as run calls it
Formatter ==
    /\ rec = NoCall
    /\ LET x == match(make_regex(style), line)
       IN  x.hit /\ rec' = formatter(style, x.groups)
    /\ UNCHANGED <<store_name, style, infile, df, ret, line, month, dd>>

SpecFormatter == FormatterInit /\ [][Formatter]_vars

---------------------------------------------------------------------------
(* The lookup of one month *)

MonthInit ==
    /\ ParserInit
    /\ infile = <<>>
    /\ line = <<>> /\ rec = NoCall
    /\ month \in Months /\ dd = NoCall

\* _month_to_dd(month)
MonthToDD ==
    /\ dd = NoCall
    /\ dd' \in month_to_dd(month)
    /\ UNCHANGED <<store_name, style, infile, df, ret, line, rec, month>>

SpecMonth == MonthInit /\ [][MonthToDD]_vars

---------------------------------------------------------------------------
(* Properties of run: what the claims speak of, stated on the records and  *)
(* lines themselves                                                        *)

Called == ret.exc # "nocall"

Returned == ret.exc = "none"

WidthOk(r) == r[2] = r[4] - r[3] + 1

Follows(cur, prev) == cur[3] = prev[4] + 1

ValidTable(t) ==
    /\ \A i \in 1..Len(t) : WidthOk(t[i])
    /\ \A i \in 2..Len(t) : Follows(t[i], t[i - 1])

\* the lines of f that the pattern of the style matches, in order
MatchingLines(st, f) ==
    SelectSeq(f, LAMBDA l : match(make_regex(st), l).hit)

\* what formatter makes of each line of ls, all of them matching
FormattedLines(st, ls) ==
    [i \in 1..Len(ls) |-> formatter(st, match(make_regex(st), ls[i]).groups)]
    \o <<>>

AllFormatted(fs) == \A i \in 1..Len(fs) : fs[i].exc = "none"

Records(fs) == [i \in 1..Len(fs) |-> fs[i].val]

\* The checks in scan order: check 2i-1 is the width of record i, check 2i
\* the continuity of records i and i+1.
CheckFails(t, p) ==
    IF p % 2 = 1 THEN ~WidthOk(t[(p + 1) \div 2])
    ELSE ~Follows(t[p \div 2 + 1], t[p \div 2])

Violated(t) == \E p \in 1..(2 * Len(t) - 1) : CheckFails(t, p)

FirstViolation(t) ==
    LET p == CHOOSE q \in 1..(2 * Len(t) - 1) :
                 /\ CheckFails(t, q)
                 /\ \A o \in 1..(q - 1) : ~CheckFails(t, o)
    IN  IF p % 2 = 1 THEN "WidthError" ELSE "ContinuityError"

\* C1. Width invariant: every record of a table that run returns, the first
\* and the last included, has length = end - start + 1.
C1_WidthInvariant ==
    Returned => \A i \in 1..Len(ret.val) : WidthOk(ret.val[i])

\* run has returned a table whose first and last record differ
C1_Witness == Returned /\ Len(ret.val) >= 2

\* C2. Continuity invariant: in a table that run returns, every record
\* starts one column after the end of the record before it.
C2_ContinuityInvariant ==
    Returned => \A i \in 2..Len(ret.val) : Follows(ret.val[i], ret.val[i - 1])

\* run has returned a table of three records, two adjacent pairs
C2_Witness == Returned /\ Len(ret.val) = 3

\* C3. A file with exactly one matching line: run returns the one-row table
\* when the record's width is right, and fails because of a WidthError when
\* it is not.
C3_SingleRecord ==
    Called =>
        LET ls == MatchingLines(style, infile)
            fs == FormattedLines(style, ls)
        IN  (Len(ls) = 1 /\ AllFormatted(fs)) =>
                IF WidthOk(fs[1].val)
                THEN Returned /\ ret.val = Records(fs)
                ELSE ret.exc = "ValueError" /\ ret.context = "WidthError"

\* C4. When the formatted records violate consistency, the failure run
\* surfaces has the kind of the first violation in scan order.
C4_SurfacesKind ==
    Called =>
        LET fs == FormattedLines(style, MatchingLines(style, infile))
        IN  (AllFormatted(fs) /\ Violated(Records(fs))) =>
                ret.exc = FirstViolation(Records(fs))

\* C4, amended. When the formatted records violate consistency, run fails
\* with a plain ValueError, raised while it handles the WidthError or
\* ContinuityError of the first violation in scan order.
C4_SurfacesValueError ==
    Called =>
        LET fs == FormattedLines(style, MatchingLines(style, infile))
        IN  (AllFormatted(fs) /\ Violated(Records(fs))) =>
                /\ ret.exc = "ValueError"
                /\ ret.context = FirstViolation(Records(fs))

\* run has failed on a file whose second record both leaves a gap and has a
\* wrong width: the continuity of the pair is met first
C4_Witness ==
    /\ Called
    /\ LET fs == FormattedLines(style, MatchingLines(style, infile))
       IN  /\ AllFormatted(fs) /\ Len(fs) >= 2
           /\ WidthOk(fs[1].val)
           /\ ~Follows(fs[2].val, fs[1].val) /\ ~WidthOk(fs[2].val)
    /\ ret.context = "ContinuityError"

\* C9. No partial results: a call of run that fails leaves self.df as it
\* was, and self.df is at all times unset or a table that satisfies both
\* invariants.
C9_NoPartialResults ==
    [][/\ (ret'.exc \notin {"none", "nocall"}) => df' = df
       /\ df'.set => ValidTable(df'.table)]_vars

\* a run has failed on a file with matching lines while self.df holds the
\* table of an earlier run
C9_Witness ==
    /\ ret.exc \notin {"none", "nocall"}
    /\ Len(MatchingLines(style, infile)) >= 1
    /\ df.set /\ Len(df.table) >= 2

\* C10. Lines that do not match are skipped and order is kept: run delivers
\* what it delivers for the matching lines alone, and a returned table holds
\* the formatted matching lines, one record each, in the order of the file.
C10_SkipNonMatching ==
    Called =>
        LET ls == MatchingLines(style, infile)
        IN  /\ ret = run(style, df, ls).ret
            /\ Returned => ret.val = Records(FormattedLines(style, ls))

\* run has returned a table for a file that holds a line that does not
\* match between two that do
C10_Witness ==
    /\ Returned /\ Len(ret.val) >= 2
    /\ \E i \in 2..(Len(infile) - 1) :
          ~match(make_regex(style), infile[i]).hit

---------------------------------------------------------------------------
(* Properties of formatter *)

BadChars == {"$", "%", "-"}

\* the id as the pattern captured it
RawId == match(make_regex(style), line).groups[1]

\* C8. Identifier normalization: for the styles 0 and 2 the id that
\* formatter delivers holds no '$', '%' or '-': it is the captured id with
\* every '$' turned to 'd', every '%' to 'p' and every '-' to 'h'.
C8_IdNormalized ==
    (rec.exc = "none" /\ style # 1) =>
        LET id_ == rec.val[1]
        IN  /\ \A i \in 1..Len(id_) : id_[i] \notin BadChars
            /\ Len(id_) = Len(RawId)
            /\ \A i \in 1..Len(id_) :
                  id_[i] = CASE RawId[i] = "$" -> "d"
                             [] RawId[i] = "%" -> "p"
                             [] RawId[i] = "-" -> "h"
                             [] OTHER -> RawId[i]

\* formatter has delivered the record of a line whose captured id holds one
\* of the three characters
C8_Witness ==
    /\ rec.exc = "none" /\ style # 1
    /\ \E i \in 1..Len(RawId) : RawId[i] \in BadChars

---------------------------------------------------------------------------
(* Properties of _month_to_dd *)

\* the calendar month of an argument, counted in months
MonthNo(s) == 12 * s[1] + s[2]

\* the month lies within the bounds of entry k of the table, both included
InBounds(s, k) ==
    /\ MonthNo(dd_to_month[k].v[1]) <= MonthNo(s)
    /\ MonthNo(s) <= MonthNo(dd_to_month[k].v[2])

Entries == 1..Len(dd_to_month)

\* C5. Period coverage: a month given as 'YYYY-MM' that lies within the
\* bounds of an entry of the table resolves to that entry's name and to no
\* other.
C5_PeriodCoverage ==
    (dd.exc # "nocall" /\ Len(month) = 2) =>
        \A k \in Entries :
            InBounds(month, k) =>
                dd.exc = "none" /\ dd.val = dd_to_month[k].name

\* '1994-02' has resolved to 'jan1994'
C5_Witness ==
    month = <<1994, 2>> /\ dd.exc = "none" /\ dd.val = "jan1994"

\* C6. A month outside every range fails with PeriodNotFoundError.
C6_PeriodNotFound ==
    (dd.exc # "nocall" /\ \A k \in Entries : ~InBounds(month, k)) =>
        dd.exc = "PeriodNotFoundError"

\* C6, amended. A month outside every range returns no name: the call
\* fails with IndexError.
C6_IndexError ==
    (dd.exc # "nocall" /\ \A k \in Entries : ~InBounds(month, k)) =>
        dd.exc = "IndexError"

\* a month after the last range has been looked up
C6_Witness ==
    /\ dd.exc # "nocall"
    /\ MonthNo(month) > MonthNo(<<2013, 3>>)

\* C7. Calendar-month granularity: a date whose year and month lie within
\* the bounds of an entry resolves to that entry's name whatever its day.
C7_MonthGranularity ==
    dd.exc # "nocall" =>
        \A k \in Entries :
            InBounds(month, k) =>
                dd.exc = "none" /\ dd.val = dd_to_month[k].name

====
